---- MODULE Spec2Model ----
(***************************************************************************)
(* Model of bsu_dates (src/__init__.py): class BSUCalendar.                *)
(*                                                                         *)
(* Dates are proleptic-Gregorian ordinals (Python's date.toordinal()); a   *)
(* timedelta is a number of days.  Optional values (Python's None) are     *)
(* encoded as sequences: None is <<>> and a present value v is <<v>>.      *)
(* Text that the code transforms character by character (get_holiday's     *)
(* lower()/replace()) is a sequence of one-character strings.              *)
(***************************************************************************)
EXTENDS Integers, Sequences, FiniteSets, TLC

VARIABLES start_year, end_year, pc, years, n_yrs, gens, yi, dates, dates_df, error, last_call, n_calls

vars == <<start_year, end_year, pc, years, n_yrs, gens, yi, dates, dates_df, error, last_call, n_calls>>

\* ------------------------------------------------------------------ bounds

\* Smallest start_year argument tried.
MinStartYear == 2011
\* Number of consecutive start_year values tried.
NumStartYears == 6
\* Largest end_year - start_year tried (the smallest is -1).
MaxSpan == 3
\* Largest number of method calls made on one constructed calendar.
MaxCalls == 1

\* ------------------------------------------------------------------ optionals

None == <<>>

Some(v) == <<v>>

\* F applied to the value of x, with x evaluated once.
Bind(x, F(_)) == CHOOSE r \in {F(v) : v \in {x}} : TRUE

\* ------------------------------------------------------------------ civil dates

\* datetime._is_leap
is_leap(y) == (y % 4 = 0) /\ ((y % 100 # 0) \/ (y % 400 = 0))

\* datetime._days_before_year: days before January 1st of year y
days_before_year(y) == (y - 1) * 365 + ((y - 1) \div 4) - ((y - 1) \div 100) + ((y - 1) \div 400)

\* datetime._days_in_month
days_in_month(y, m) ==
    IF m = 2 THEN (IF is_leap(y) THEN 29 ELSE 28)
    ELSE IF m \in {4, 6, 9, 11} THEN 30 ELSE 31

\* datetime._DAYS_BEFORE_MONTH: days of a common year before the first day of each month
DAYS_BEFORE_MONTH == <<0, 31, 59, 90, 120, 151, 181, 212, 243, 273, 304, 334>>

\* datetime._days_before_month: days in year y before the first day of month m
days_before_month(y, m) == DAYS_BEFORE_MONTH[m] + (IF m > 2 /\ is_leap(y) THEN 1 ELSE 0)

\* datetime.date(y, m, d) as an ordinal (January 1st of year 1 is day 1)
date(y, m, d) == days_before_year(y) + days_before_month(y, m) + d

\* date.weekday(): Monday is 0, Sunday is 6
weekday(d) == (d + 6) % 7

\* date.year of an ordinal
year_of(d) ==
    CHOOSE y \in (d \div 366)..((d \div 365) + 1) : date(y, 1, 1) <= d /\ d < date(y + 1, 1, 1)

\* datetime.timedelta(weeks=w), in days
timedelta_weeks(w) == 7 * w

\* ------------------------------------------------------------------ dateutil.rrule

YEARLY == 0

MO == 0

TH == 3

\* rrule._iterinfo.rebuild, bynweekday under YEARLY with bymonth: the day of month m
\* of year y selected by weekday wd with ordinal n (n < 0 counts from the month's end),
\* or None when the computed day falls outside the month.
nth_weekday(y, m, wd, n) ==
    LET first == date(y, m, 1)
        last == date(y, m, days_in_month(y, m))
        i0 == IF n < 0 THEN last + (n + 1) * 7 ELSE first + (n - 1) * 7
        i == IF n < 0 THEN i0 - ((weekday(i0) - wd) % 7)
             ELSE i0 + ((7 - weekday(i0) + wd) % 7)
    IN  IF first <= i /\ i <= last THEN Some(i) ELSE None

\* The one day of year y a generator's rule selects (None when it selects none).
rule_date(g, y) ==
    IF g.byweekday # None
    THEN nth_weekday(y, g.bymonth, g.byweekday[1].weekday, g.byweekday[1].n)
    ELSE IF g.bymonthday[1] <= days_in_month(y, g.bymonth)
         THEN Some(date(y, g.bymonth, g.bymonthday[1]))
         ELSE None

RECURSIVE next_occurrence(_, _)
\* rrule._iter: scan year by year from y for the first selected day on or after dtstart
\* (datetime.MAXYEAR is 9999).
next_occurrence(g, y) ==
    IF y > 9999 THEN None
    ELSE LET c == rule_date(g, y)
         IN  IF c # None /\ c[1] >= g.dtstart
             THEN Some([date |-> c[1], year |-> y])
             ELSE next_occurrence(g, y + 1)

\* rrule.rrule(freq, **kwargs) followed by iter(): a forward-only generator.
\* kwargs holds dtstart and at least one of until / count.
rrule(freq, kwargs) ==
    [ bymonth    |-> kwargs.bymonth,
      byweekday  |-> IF "byweekday" \in DOMAIN kwargs THEN Some(kwargs.byweekday) ELSE None,
      bymonthday |-> IF "bymonthday" \in DOMAIN kwargs THEN Some(kwargs.bymonthday) ELSE None,
      dtstart    |-> kwargs.dtstart[1],
      until      |-> IF "until" \in DOMAIN kwargs THEN kwargs.until ELSE None,
      count      |-> IF "count" \in DOMAIN kwargs THEN kwargs.count ELSE None,
      year       |-> year_of(kwargs.dtstart[1]),
      total      |-> 0 ]

StopIteration(g) == [ok |-> FALSE, value |-> 0, gen |-> g]

\* next(generator): the next date of the rule, or StopIteration once count values
\* were yielded or the next date lies after until.
next(g) ==
    IF g.count # None /\ g.total >= g.count[1] THEN StopIteration(g)
    ELSE LET occ == next_occurrence(g, g.year)
         IN  IF occ = None THEN StopIteration(g)
             ELSE IF g.until # None /\ occ[1].date > g.until[1] THEN StopIteration(g)
             ELSE [ok |-> TRUE, value |-> occ[1].date,
                   gen |-> [g EXCEPT !.year = occ[1].year + 1, !.total = @ + 1]]

\* ------------------------------------------------------------------ BSUCalendar helpers

OptionalKeys == {"dtstart", "until", "count"}

\* BSUCalendar._irule: [exc, gen]
_irule(kwargs) ==
    IF "freq" \notin DOMAIN kwargs THEN [exc |-> "AssertionError", gen |-> None]
    ELSE LET keep == {k \in DOMAIN kwargs : ~(k \in OptionalKeys /\ kwargs[k] = None)}
             kw == [k \in keep |-> kwargs[k]]
             rest == [k \in keep \ {"freq"} |-> kwargs[k]]
         IN  IF ~("until" \in DOMAIN rest \/ "count" \in DOMAIN rest)
             THEN [exc |-> "ValueError", gen |-> None]
             ELSE [exc |-> "none", gen |-> Some(rrule(kw.freq, rest))]

\* BSUCalendar._thanksgiving
_thanksgiving(dtstart, until, count) ==
    _irule([freq |-> YEARLY, bymonth |-> 11, byweekday |-> [weekday |-> TH, n |-> 4],
            dtstart |-> dtstart, until |-> until, count |-> count])

\* BSUCalendar._labor_day
_labor_day(dtstart, until, count) ==
    _irule([freq |-> YEARLY, bymonth |-> 9, byweekday |-> [weekday |-> MO, n |-> 1],
            dtstart |-> dtstart, until |-> until, count |-> count])

\* BSUCalendar._mlk_day
_mlk_day(dtstart, until, count) ==
    _irule([freq |-> YEARLY, bymonth |-> 1, byweekday |-> [weekday |-> MO, n |-> 3],
            dtstart |-> dtstart, until |-> until, count |-> count])

\* BSUCalendar._memorial_day
_memorial_day(dtstart, until, count) ==
    _irule([freq |-> YEARLY, bymonth |-> 3, byweekday |-> [weekday |-> MO, n |-> -1],
            dtstart |-> dtstart, until |-> until, count |-> count])

\* BSUCalendar._independence_day
_independence_day(dtstart, until, count) ==
    _irule([freq |-> YEARLY, bymonth |-> 7, bymonthday |-> 4,
            dtstart |-> dtstart, until |-> until, count |-> count])

\* A wrong fall-start rule: the third Monday of August.
_fall_start_third_monday(dtstart, until, count) ==
    _irule([freq |-> YEARLY, bymonth |-> 8, byweekday |-> [weekday |-> MO, n |-> 3],
            dtstart |-> dtstart, until |-> until, count |-> count])

\* BSUCalendar._fall_start
_fall_start(dtstart, until, count) ==
    _irule([freq |-> YEARLY, bymonth |-> 8, byweekday |-> [weekday |-> MO, n |-> -2],
            dtstart |-> dtstart, until |-> until, count |-> count])

\* BSUCalendar._fall_break_start
_fall_break_start(dtstart, until, count) ==
    _irule([freq |-> YEARLY, bymonth |-> 10, byweekday |-> [weekday |-> MO, n |-> -2],
            dtstart |-> dtstart, until |-> until, count |-> count])

\* BSUCalendar._spring_withdraw_deadline
_spring_withdraw_deadline(dtstart, until, count) ==
    _irule([freq |-> YEARLY, bymonth |-> 3, byweekday |-> [weekday |-> MO, n |-> 3],
            dtstart |-> dtstart, until |-> until, count |-> count])

\* BSUCalendar._add_days
_add_days(d, days) == d + days

\* self._sem_code_to_int
_sem_code_to_int == [Fall |-> 10, Spring |-> 20, Summer |-> 30]

\* A wrong term code: every semester gets the Fall code.
_make_semester_df_fall_code(yr, semester, rows) ==
    [i \in 1..Len(rows) |->
        [Term |-> 100 * yr + _sem_code_to_int["Fall"], Semester |-> semester, Year |-> yr,
         DateName |-> rows[i][1], Date |-> rows[i][2], Tags |-> rows[i][3]]]

\* BSUCalendar._make_semester_df: a DataFrame is the sequence of its rows
_make_semester_df(yr, semester, rows) ==
    [i \in 1..Len(rows) |->
        [Term |-> 100 * yr + _sem_code_to_int[semester], Semester |-> semester, Year |-> yr,
         DateName |-> rows[i][1], Date |-> rows[i][2], Tags |-> rows[i][3]]]

\* BSUCalendar._get_fall_dates; the three anchors are the values its next() calls drew
_get_fall_dates(yr, f_start, f_end, f_break_start, f_labor, f_thank) ==
    LET f_break_end == _add_days(f_break_start, 1)
        f_withdraw_end == _add_days(f_break_end, 1)
    IN  _make_semester_df(yr, "Fall",
          << <<"Term Start", f_start, "Instruction">>,
             <<"Classes Start", f_start, "Instruction">>,
             <<"Late Registration Start", f_start, "Registration">>,
             <<"Late Registration End", _add_days(f_start, 4), "Registration">>,
             <<"Break Start", f_break_start, "Instruction">>,
             <<"Break End", f_break_end, "Instruction">>,
             <<"Withdraw Deadline", f_withdraw_end, "Registration">>,
             <<"Thanksgiving Break Start", _add_days(f_thank, -1), "Instruction">>,
             <<"Thanksgiving", f_thank, "Instruction,Holiday">>,
             <<"Thanksgiving Break End", _add_days(f_thank, 1), "Instruction">>,
             <<"Labor Day", f_labor, "Instruction,Holiday">>,
             <<"Classes End", _add_days(f_end, -4), "Instruction">>,
             <<"Finals Start", _add_days(f_end, -3), "Instruction">>,
             <<"Finals End", f_end, "Instruction">>,
             <<"Term End", _add_days(f_end, -3), "Instruction">>,
             <<"Final Grades Due", _add_days(f_end, 3), "Instruction">> >>)

\* BSUCalendar._get_spring_dates; the two anchors are the values its next() calls drew
_get_spring_dates(yr, sp_start, sp_end, sp_mlk, sp_withdraw) ==
    LET sp_break_start == IF yr = 2013 THEN sp_start + timedelta_weeks(9)
                          ELSE sp_start + timedelta_weeks(8)
    IN  _make_semester_df(yr, "Spring",
          << <<"Term Start", sp_start, "Instruction">>,
             <<"Classes Start", sp_start, "Instruction">>,
             <<"MLK Day", sp_mlk, "Instruction,Holiday">>,
             <<"Break Start", sp_break_start, "Instruction">>,
             <<"Break End", _add_days(sp_break_start, 4), "Instruction">>,
             <<"Withdraw Deadline", sp_withdraw, "Registration">>,
             <<"Classes End", _add_days(sp_end, -4), "Instruction">>,
             <<"Finals Start", _add_days(sp_end, -3), "Instruction">>,
             <<"Finals End", sp_end, "Instruction">>,
             <<"Term End", sp_end, "Instruction">>,
             <<"Final Grades Due", _add_days(sp_end, 3), "Instruction">> >>)

\* BSUCalendar._get_summer_dates; the anchor is the value its next() call drew
\* (the memorial_day generator it is passed is never advanced)
_get_summer_dates(yr, sm_start, sm_end, sm_independence) ==
    _make_semester_df(yr, "Summer",
          << <<"Term Start", sm_start, "Instruction">>,
             <<"Independence Day", sm_independence, "Instruction,Holiday">>,
             <<"Term End", sm_end, "Instruction">>,
             <<"Final Grades Due", _add_days(sm_end, 3), "Instruction">> >>)

\* ------------------------------------------------------------------ get_holiday

Upper == <<"A","B","C","D","E","F","G","H","I","J","K","L","M","N","O","P","Q","R","S","T","U","V","W","X","Y","Z">>

Lower == <<"a","b","c","d","e","f","g","h","i","j","k","l","m","n","o","p","q","r","s","t","u","v","w","x","y","z">>

\* str.lower(), one character
lower_char(c) ==
    IF \E i \in 1..Len(Upper) : Upper[i] = c
    THEN Lower[CHOOSE i \in 1..Len(Upper) : Upper[i] = c]
    ELSE c

\* str.lower()
lower(s) == [i \in 1..Len(s) |-> lower_char(s[i])]

\* str.replace(old, new) for one-character old and new
replace(s, old, new) == [i \in 1..Len(s) |-> IF s[i] = old THEN new ELSE s[i]]

\* The holiday names the calls below are made with.
h_Thanksgiving == <<"T","h","a","n","k","s","g","i","v","i","n","g">>

h_Thanksgiving_Break == <<"T","h","a","n","k","s","g","i","v","i","n","g"," ","B","r","e","a","k">>

h_Labor_Day == <<"L","a","b","o","r"," ","D","a","y">>

h_MLK_Day == <<"M","L","K"," ","D","a","y">>

h_Memorial_Day == <<"M","e","m","o","r","i","a","l"," ","D","a","y">>

h_Independence_Day == <<"I","n","d","e","p","e","n","d","e","n","c","e"," ","D","a","y">>

h_Fall_Start == <<"F","a","l","l"," ","S","t","a","r","t">>

h_Fall_Break_Start == <<"F","a","l","l"," ","B","r","e","a","k"," ","S","t","a","r","t">>

h_Spring_Withdraw_Deadline == <<"S","p","r","i","n","g"," ","W","i","t","h","d","r","a","w"," ","D","e","a","d","l","i","n","e">>

h_mlk_day_lower == <<"m","l","k"," ","d","a","y">>

h_Christmas == <<"C","h","r","i","s","t","m","a","s">>

h_Irule == <<"I","r","u","l","e">>

h_Add_Days == <<"A","d","d"," ","D","a","y","s">>

h_Semesters == <<"S","e","m","e","s","t","e","r","s">>

\* The underscore-prefixed attributes of a BSUCalendar instance.
attr_thanksgiving == <<"_","t","h","a","n","k","s","g","i","v","i","n","g">>

attr_labor_day == <<"_","l","a","b","o","r","_","d","a","y">>

attr_mlk_day == <<"_","m","l","k","_","d","a","y">>

attr_memorial_day == <<"_","m","e","m","o","r","i","a","l","_","d","a","y">>

attr_independence_day == <<"_","i","n","d","e","p","e","n","d","e","n","c","e","_","d","a","y">>

attr_fall_start == <<"_","f","a","l","l","_","s","t","a","r","t">>

attr_fall_break_start == <<"_","f","a","l","l","_","b","r","e","a","k","_","s","t","a","r","t">>

attr_spring_withdraw_deadline == <<"_","s","p","r","i","n","g","_","w","i","t","h","d","r","a","w","_","d","e","a","d","l","i","n","e">>

attr_irule == <<"_","i","r","u","l","e">>

attr_add_days == <<"_","a","d","d","_","d","a","y","s">>

attr_set_logger == <<"_","s","e","t","_","l","o","g","g","e","r">>

attr_get_fall_dates == <<"_","g","e","t","_","f","a","l","l","_","d","a","t","e","s">>

attr_get_spring_dates == <<"_","g","e","t","_","s","p","r","i","n","g","_","d","a","t","e","s">>

attr_get_summer_dates == <<"_","g","e","t","_","s","u","m","m","e","r","_","d","a","t","e","s">>

attr_make_semester_df == <<"_","m","a","k","e","_","s","e","m","e","s","t","e","r","_","d","f">>

attr_semesters == <<"_","s","e","m","e","s","t","e","r","s">>

attr_sem_code_to_int == <<"_","s","e","m","_","c","o","d","e","_","t","o","_","i","n","t">>

attr_int_to_sem_code == <<"_","i","n","t","_","t","o","_","s","e","m","_","c","o","d","e">>

attr_logger == <<"_","l","o","g","g","e","r">>

\* The attributes every instance inherits from object and the class machinery.
attr__class__ == <<"_","_","c","l","a","s","s","_","_">>

attr__delattr__ == <<"_","_","d","e","l","a","t","t","r","_","_">>

attr__dict__ == <<"_","_","d","i","c","t","_","_">>

attr__dir__ == <<"_","_","d","i","r","_","_">>

attr__doc__ == <<"_","_","d","o","c","_","_">>

attr__eq__ == <<"_","_","e","q","_","_">>

attr__format__ == <<"_","_","f","o","r","m","a","t","_","_">>

attr__ge__ == <<"_","_","g","e","_","_">>

attr__getattribute__ == <<"_","_","g","e","t","a","t","t","r","i","b","u","t","e","_","_">>

attr__getstate__ == <<"_","_","g","e","t","s","t","a","t","e","_","_">>

attr__gt__ == <<"_","_","g","t","_","_">>

attr__hash__ == <<"_","_","h","a","s","h","_","_">>

attr__init__ == <<"_","_","i","n","i","t","_","_">>

attr__init_subclass__ == <<"_","_","i","n","i","t","_","s","u","b","c","l","a","s","s","_","_">>

attr__le__ == <<"_","_","l","e","_","_">>

attr__lt__ == <<"_","_","l","t","_","_">>

attr__module__ == <<"_","_","m","o","d","u","l","e","_","_">>

attr__ne__ == <<"_","_","n","e","_","_">>

attr__new__ == <<"_","_","n","e","w","_","_">>

attr__reduce__ == <<"_","_","r","e","d","u","c","e","_","_">>

attr__reduce_ex__ == <<"_","_","r","e","d","u","c","e","_","e","x","_","_">>

attr__repr__ == <<"_","_","r","e","p","r","_","_">>

attr__setattr__ == <<"_","_","s","e","t","a","t","t","r","_","_">>

attr__sizeof__ == <<"_","_","s","i","z","e","o","f","_","_">>

attr__str__ == <<"_","_","s","t","r","_","_">>

attr__subclasshook__ == <<"_","_","s","u","b","c","l","a","s","s","h","o","o","k","_","_">>

attr__weakref__ == <<"_","_","w","e","a","k","r","e","f","_","_">>

DunderAttrs ==
    { attr__class__,
      attr__delattr__,
      attr__dict__,
      attr__dir__,
      attr__doc__,
      attr__eq__,
      attr__format__,
      attr__ge__,
      attr__getattribute__,
      attr__getstate__,
      attr__gt__,
      attr__hash__,
      attr__init__,
      attr__init_subclass__,
      attr__le__,
      attr__lt__,
      attr__module__,
      attr__ne__,
      attr__new__,
      attr__reduce__,
      attr__reduce_ex__,
      attr__repr__,
      attr__setattr__,
      attr__sizeof__,
      attr__str__,
      attr__subclasshook__,
      attr__weakref__ }

h__init__ == <<"_","i","n","i","t","_","_">>

h__class__ == <<"_","c","l","a","s","s","_","_">>

h__dict__ == <<"_","d","i","c","t","_","_">>

\* The eight rule methods.
RuleAttrs ==
    { attr_thanksgiving, attr_labor_day, attr_mlk_day, attr_memorial_day,
      attr_independence_day, attr_fall_start, attr_fall_break_start,
      attr_spring_withdraw_deadline }

\* Attributes that exist and are no rule method: the other methods, which take no
\* dtstart / count keyword, and the data attributes, which are not callable
\* (calling any of them, or an inherited attribute, with dtstart / count is a TypeError).
OtherAttrs ==
    { attr_add_days, attr_set_logger, attr_get_fall_dates, attr_get_spring_dates,
      attr_get_summer_dates, attr_make_semester_df, attr_semesters,
      attr_sem_code_to_int, attr_int_to_sem_code, attr_logger }

\* hasattr(self, attr_name)
hasattr(attr_name) ==
    attr_name \in RuleAttrs \cup {attr_irule} \cup OtherAttrs \cup DunderAttrs

\* getattr(self, attr_name)(dtstart=dtstart, until=until, count=count) for a rule method
call_rule(attr_name, dtstart, until, count) ==
    CASE attr_name = attr_thanksgiving -> _thanksgiving(dtstart, until, count)
      [] attr_name = attr_labor_day -> _labor_day(dtstart, until, count)
      [] attr_name = attr_mlk_day -> _mlk_day(dtstart, until, count)
      [] attr_name = attr_memorial_day -> _memorial_day(dtstart, until, count)
      [] attr_name = attr_independence_day -> _independence_day(dtstart, until, count)
      [] attr_name = attr_fall_start -> _fall_start(dtstart, until, count)
      [] attr_name = attr_fall_break_start -> _fall_break_start(dtstart, until, count)
      [] attr_name = attr_spring_withdraw_deadline -> _spring_withdraw_deadline(dtstart, until, count)

RECURSIVE list_gen(_)
\* list(generator)
list_gen(g) ==
    Bind(next(g), LAMBDA r : IF r.ok THEN <<r.value>> \o list_gen(r.gen) ELSE <<>>)

\* get_holiday without the calendar-year offset of the spring and summer holidays.
get_holiday_no_offset(holiday, ac_year) ==
    LET attr_name == <<"_">> \o replace(lower(holiday), " ", "_")
    IN  IF hasattr(attr_name)
        THEN IF attr_name \in RuleAttrs
             THEN Bind(call_rule(attr_name, Some(date(ac_year, 1, 1)), None, Some(1)), LAMBDA r :
                    IF r.exc # "none" THEN [exc |-> r.exc, value |-> None]
                    ELSE Bind(list_gen(r.gen[1]), LAMBDA l :
                           IF l = <<>> THEN [exc |-> "IndexError", value |-> None]
                           ELSE [exc |-> "none", value |-> Some(l[1])]))
             ELSE IF attr_name = attr_irule
             THEN [exc |-> _irule([dtstart |-> Some(date(ac_year, 1, 1)), count |-> Some(1)]).exc,
                   value |-> None]
             ELSE [exc |-> "TypeError", value |-> None]
        ELSE [exc |-> "ValueError", value |-> None]

\* BSUCalendar.get_holiday: [exc, value]
get_holiday(holiday, ac_year) ==
    LET attr_name == <<"_">> \o replace(lower(holiday), " ", "_")
        cal_year == IF holiday \in {h_MLK_Day, h_Memorial_Day, h_Independence_Day}
                    THEN ac_year + 1 ELSE ac_year
    IN  IF hasattr(attr_name)
        THEN IF attr_name \in RuleAttrs
             THEN Bind(call_rule(attr_name, Some(date(cal_year, 1, 1)), None, Some(1)), LAMBDA r :
                    IF r.exc # "none" THEN [exc |-> r.exc, value |-> None]
                    ELSE Bind(list_gen(r.gen[1]), LAMBDA l :
                           IF l = <<>> THEN [exc |-> "IndexError", value |-> None]
                           ELSE [exc |-> "none", value |-> Some(l[1])]))
             ELSE IF attr_name = attr_irule
             THEN [exc |-> _irule([dtstart |-> Some(date(cal_year, 1, 1)), count |-> Some(1)]).exc,
                   value |-> None]
             ELSE [exc |-> "TypeError", value |-> None]
        ELSE [exc |-> "ValueError", value |-> None]

\* ------------------------------------------------------------------ construction

term_length == 116

sum_term_length == 68

xmas_break == 24

\* A wrong window start: January 1st of start_year.
min_date_january(sy) == date(sy, 1, 1)

\* self.min_date
min_date(sy) == date(sy, 8, 1)

\* list(range(start_year, end_year))
range(a, b) == [i \in 1..(IF b > a THEN b - a ELSE 0) |-> a + i - 1]

RECURSIVE flatten(_)
flatten(dfs) == IF dfs = <<>> THEN <<>> ELSE Head(dfs) \o flatten(Tail(dfs))

\* A concatenation that accepts an empty list and returns an empty table.
pd_concat_empty_ok(dfs) == [exc |-> "none", df |-> Some(flatten(dfs))]

\* pandas.concat(list of DataFrames): raises ValueError on an empty list
pd_concat(dfs) ==
    IF dfs = <<>> THEN [exc |-> "ValueError", df |-> None]
    ELSE [exc |-> "none", df |-> Some(flatten(dfs))]

GenNames ==
    { "thanksgiving", "labor_day", "mlk_day", "memorial_day", "independence_day",
      "fall_start", "fall_break_start", "spring_withdraw" }

\* The generators of __init__, each made with dtstart=min_date, count=n_yrs.
make_generators(dtstart, count) ==
    [ thanksgiving     |-> _thanksgiving(dtstart, None, count),
      labor_day        |-> _labor_day(dtstart, None, count),
      mlk_day          |-> _mlk_day(dtstart, None, count),
      memorial_day     |-> _memorial_day(dtstart, None, count),
      independence_day |-> _independence_day(dtstart, None, count),
      fall_start       |-> _fall_start(dtstart, None, count),
      fall_break_start |-> _fall_break_start(dtstart, None, count),
      spring_withdraw  |-> _spring_withdraw_deadline(dtstart, None, count) ]

NoCall ==
    [op |-> "none", holiday |-> <<>>, ac_year |-> 0, exc |-> "none", value |-> None, gen |-> None,
     until |-> None, count |-> None]

Init ==
    /\ start_year \in MinStartYear..(MinStartYear + NumStartYears - 1)
    /\ end_year \in (start_year - 1)..(start_year + MaxSpan)
    /\ pc = "new"
    /\ years = <<>>
    /\ n_yrs = 0
    /\ gens = <<>>
    /\ yi = 1
    /\ dates = <<>>
    /\ dates_df = None
    /\ error = "none"
    /\ last_call = NoCall
    /\ n_calls = 0

\* __init__ up to the loop: the year list and the eight generators
Setup ==
    /\ pc = "new"
    /\ LET ys == range(start_year, end_year)
           made == make_generators(Some(min_date(start_year)), Some(Len(ys)))
       IN  /\ years' = ys
           /\ n_yrs' = Len(ys)
           /\ IF \E g \in GenNames : made[g].exc # "none"
              THEN /\ pc' = "failed"
                   /\ error' = made[CHOOSE g \in GenNames : made[g].exc # "none"].exc
                   /\ gens' = gens
              ELSE /\ pc' = "loop"
                   /\ error' = error
                   /\ gens' = [g \in GenNames |-> made[g].gen[1]]
    /\ UNCHANGED <<start_year, end_year, yi, dates, dates_df, last_call, n_calls>>

\* One iteration of `for yr in self.years`
LoopYear ==
    /\ pc = "loop"
    /\ yi <= Len(years)
    /\ LET yr == years[yi]
           d_fall_start == next(gens["fall_start"])
           d_fall_break == next(gens["fall_break_start"])
           d_labor == next(gens["labor_day"])
           d_thank == next(gens["thanksgiving"])
           d_mlk == next(gens["mlk_day"])
           d_withdraw == next(gens["spring_withdraw"])
           d_independence == next(gens["independence_day"])
           f_start == d_fall_start.value
           f_end == f_start + term_length
           sp_start == _add_days(f_end, xmas_break)
           sp_end == _add_days(sp_start, term_length)
           sm_start == _add_days(sp_end, 10)
           sm_end == _add_days(sp_start, sum_term_length)
       IN  IF /\ d_fall_start.ok /\ d_fall_break.ok /\ d_labor.ok /\ d_thank.ok
              /\ d_mlk.ok /\ d_withdraw.ok /\ d_independence.ok
           THEN /\ gens' = [gens EXCEPT !["fall_start"] = d_fall_start.gen,
                                         !["fall_break_start"] = d_fall_break.gen,
                                         !["labor_day"] = d_labor.gen,
                                         !["thanksgiving"] = d_thank.gen,
                                         !["mlk_day"] = d_mlk.gen,
                                         !["spring_withdraw"] = d_withdraw.gen,
                                         !["independence_day"] = d_independence.gen]
                /\ dates' = dates \o
                     << _get_fall_dates(yr, f_start, f_end, d_fall_break.value,
                                        d_labor.value, d_thank.value),
                        _get_spring_dates(yr, sp_start, sp_end, d_mlk.value, d_withdraw.value),
                        _get_summer_dates(yr, sm_start, sm_end, d_independence.value) >>
                /\ yi' = yi + 1
                /\ UNCHANGED <<pc, error>>
           ELSE /\ pc' = "failed"
                /\ error' = "StopIteration"
                /\ UNCHANGED <<gens, dates, yi>>
    /\ UNCHANGED <<start_year, end_year, years, n_yrs, dates_df, last_call, n_calls>>

\* self.dates_df = pd.concat(dates)
Concat ==
    /\ pc = "loop"
    /\ yi > Len(years)
    /\ LET r == pd_concat(dates)
       IN  IF r.exc = "none"
           THEN /\ dates_df' = r.df
                /\ pc' = "done"
                /\ error' = error
           ELSE /\ dates_df' = dates_df
                /\ pc' = "failed"
                /\ error' = r.exc
    /\ UNCHANGED <<start_year, end_year, years, n_yrs, gens, yi, dates, last_call, n_calls>>

HolidayNames ==
    { h_Thanksgiving, h_Thanksgiving_Break, h_Labor_Day, h_MLK_Day, h_Memorial_Day,
      h_Independence_Day, h_Fall_Start, h_Fall_Break_Start, h_Spring_Withdraw_Deadline,
      h_mlk_day_lower, h_Christmas, h_Irule, h_Add_Days, h_Semesters,
      h__init__, h__class__, h__dict__ }

\* A call of get_holiday on the constructed calendar
GetHoliday ==
    /\ pc = "done"
    /\ n_calls < MaxCalls
    /\ \E holiday \in HolidayNames, ac_year \in (start_year - 1)..end_year :
         LET r == get_holiday(holiday, ac_year)
         IN  last_call' = [NoCall EXCEPT !.op = "get_holiday", !.holiday = holiday,
                                         !.ac_year = ac_year, !.exc = r.exc, !.value = r.value]
    /\ n_calls' = n_calls + 1
    /\ UNCHANGED <<start_year, end_year, pc, years, n_yrs, gens, yi, dates, dates_df, error>>

\* A direct call of one of the eight rule methods on the constructed calendar
MakeRule ==
    /\ pc = "done"
    /\ n_calls < MaxCalls
    /\ \E attr_name \in RuleAttrs,
          dtstart \in {min_date(start_year)},
          until \in {None, Some(date(start_year + 2, 1, 1))},
          count \in {None, Some(0), Some(1), Some(2)} :
         LET r == call_rule(attr_name, Some(dtstart), until, count)
         IN  last_call' = [NoCall EXCEPT !.op = "rule", !.holiday = attr_name, !.exc = r.exc,
                                         !.gen = r.gen, !.until = until, !.count = count]
    /\ n_calls' = n_calls + 1
    /\ UNCHANGED <<start_year, end_year, pc, years, n_yrs, gens, yi, dates, dates_df, error>>

\* next() on the generator the last rule call returned
NextDate ==
    /\ pc = "done"
    /\ last_call.gen # None
    /\ LET r == next(last_call.gen[1])
       IN  last_call' = [last_call EXCEPT !.op = "next", !.gen = Some(r.gen),
                                          !.exc = IF r.ok THEN "none" ELSE "StopIteration",
                                          !.value = IF r.ok THEN Some(r.value) ELSE None]
    /\ UNCHANGED <<start_year, end_year, pc, years, n_yrs, gens, yi, dates, dates_df, error, n_calls>>

Next == Setup \/ LoopYear \/ Concat \/ GetHoliday \/ MakeRule \/ NextDate

Spec == Init /\ [][Next]_vars

\* ------------------------------------------------------------------ properties

\* The rows of the assembled table (empty while there is none).
Table == IF dates_df = None THEN <<>> ELSE dates_df[1]

\* The dates of the rows of academic year yr, semester sem, named name.
RowDates(yr, sem, name) ==
    { Table[i].Date : i \in { j \in 1..Len(Table) :
        Table[j].Year = yr /\ Table[j].Semester = sem /\ Table[j].DateName = name } }

\* The dates of the rows of academic year yr named name, in any semester.
NamedDates(yr, name) ==
    { Table[i].Date : i \in { j \in 1..Len(Table) :
        Table[j].Year = yr /\ Table[j].DateName = name } }

\* Day d lies in month m of calendar year y.
InMonth(d, y, m) == date(y, m, 1) <= d /\ d <= date(y, m, days_in_month(y, m))

\* The days of month m of year y that fall on weekday wd.
WeekdaysOfMonth(y, m, wd) ==
    { e \in date(y, m, 1)..date(y, m, days_in_month(y, m)) : weekday(e) = wd }

\* Day d is the n-th wd of month m of year y, counted from the month's start.
IsNthWeekday(d, y, m, wd, n) ==
    /\ d \in WeekdaysOfMonth(y, m, wd)
    /\ Cardinality({e \in WeekdaysOfMonth(y, m, wd) : e <= d}) = n

\* Day d is the n-th wd of month m of year y, counted from the month's end.
IsNthLastWeekday(d, y, m, wd, n) ==
    /\ d \in WeekdaysOfMonth(y, m, wd)
    /\ Cardinality({e \in WeekdaysOfMonth(y, m, wd) : e >= d}) = n

\* C1: get_holiday(name, Y) returns the holiday as its rule places it in calendar year
\* Y + 1 for MLK Day (third Monday of January), Memorial Day (last Monday of March) and
\* Independence Day (July 4th), and in calendar year Y for Thanksgiving (fourth Thursday
\* of November) and Labor Day (first Monday of September).
C1_HolidayCalendarYear ==
    (last_call.op = "get_holiday" /\ last_call.holiday \in
        {h_MLK_Day, h_Memorial_Day, h_Independence_Day, h_Thanksgiving, h_Labor_Day})
    => /\ last_call.exc = "none"
       /\ last_call.value # None
       /\ LET d == last_call.value[1]
              Y == last_call.ac_year
          IN  /\ last_call.holiday = h_MLK_Day => IsNthWeekday(d, Y + 1, 1, 0, 3)
              /\ last_call.holiday = h_Memorial_Day => IsNthLastWeekday(d, Y + 1, 3, 0, 1)
              /\ last_call.holiday = h_Independence_Day => d = date(Y + 1, 7, 4)
              /\ last_call.holiday = h_Thanksgiving => IsNthWeekday(d, Y, 11, 3, 4)
              /\ last_call.holiday = h_Labor_Day => IsNthWeekday(d, Y, 9, 0, 1)

\* get_holiday("MLK Day", 2019) returned Monday, January 20th 2020.
C1_Witness ==
    /\ last_call.op = "get_holiday"
    /\ last_call.holiday = h_MLK_Day
    /\ last_call.ac_year = 2019
    /\ last_call.value = Some(date(2020, 1, 20))
    /\ weekday(date(2020, 1, 20)) = 0

\* C2: every Fall "Term Start" row of the table is a Monday in August of its academic
\* year and the second-to-last Monday of that August, and every year of the range has one.
C2_FallStartSecondToLastMonday ==
    pc = "done" =>
      \A i \in 1..Len(years) :
        /\ RowDates(years[i], "Fall", "Term Start") # {}
        /\ \A d \in RowDates(years[i], "Fall", "Term Start") :
             /\ weekday(d) = 0
             /\ InMonth(d, years[i], 8)
             /\ IsNthLastWeekday(d, years[i], 8, 0, 2)

\* A table covering August 2014 (four Mondays) and August 2015 (five Mondays).
C2_Witness ==
    /\ pc = "done"
    /\ RowDates(2014, "Fall", "Term Start") = {date(2014, 8, 18)}
    /\ RowDates(2015, "Fall", "Term Start") = {date(2015, 8, 24)}
    /\ Cardinality(WeekdaysOfMonth(2014, 8, 0)) = 4
    /\ Cardinality(WeekdaysOfMonth(2015, 8, 0)) = 5

\* C3: for every academic year of the table, the Fall "Term End" date minus the Fall
\* "Classes End" date is exactly 4 days.
C3_FallTermEndMinusClassesEnd ==
    pc = "done" =>
      \A i \in 1..Len(years) :
        \A e \in RowDates(years[i], "Fall", "Term End") :
          \A c \in RowDates(years[i], "Fall", "Classes End") : e - c = 4

\* The term code of a semester, as the data model states it.
TermCodeOf(sem) == CASE sem = "Fall" -> 10 [] sem = "Spring" -> 20 [] sem = "Summer" -> 30

\* C4: construction with start_year < end_year succeeds, and the table's term codes are
\* exactly 100*Y + c for Y in [start_year, end_year) and c in {10, 20, 30}; every row's
\* Year is its term code div 100 and its Semester's code its term code mod 100; rows are
\* in increasing year order and, within a year, in the order Fall, Spring, Summer.
C4_TermCodes ==
    /\ (start_year < end_year) => pc # "failed"
    /\ (pc = "done" /\ start_year < end_year) =>
         /\ { Table[i].Term : i \in 1..Len(Table) } =
              { 100 * Y + c : Y \in start_year..(end_year - 1), c \in {10, 20, 30} }
         /\ \A i \in 1..Len(Table) :
              /\ Table[i].Year = Table[i].Term \div 100
              /\ TermCodeOf(Table[i].Semester) = Table[i].Term % 100
         /\ \A i \in 1..Len(Table) : \A j \in i..Len(Table) : Table[i].Term <= Table[j].Term

\* The calendar of (2015, 2017): two years of 16 + 11 + 4 rows.
C4_Witness ==
    /\ pc = "done"
    /\ start_year = 2015
    /\ end_year = 2017
    /\ Len(Table) = 62
    /\ { Table[i].Term : i \in 1..Len(Table) } = {201510, 201520, 201530, 201610, 201620, 201630}

\* The names get_holiday is meant to recognize.
RecognizedHolidays ==
    {h_Thanksgiving, h_Labor_Day, h_MLK_Day, h_Memorial_Day, h_Independence_Day}

\* C5: get_holiday fails with the not-recognized error (ValueError), and returns no
\* date, for every name that is not a recognized holiday.
C5_UnrecognizedHolidayFails ==
    (last_call.op = "get_holiday" /\ last_call.holiday \notin RecognizedHolidays)
    => (last_call.exc = "ValueError" /\ last_call.value = None)

\* C6: a rule method returns a generator only when exactly one of count / until is
\* supplied; with both, and with neither, it fails.
C6_ExactlyOneOfCountUntil ==
    last_call.op = "rule" =>
      ( (last_call.exc = "none" /\ last_call.gen # None)
        <=> ((last_call.until = None) # (last_call.count = None)) )

\* C7: construction with end_year <= start_year never yields a table, and once past
\* the loop it has failed with an error.
C7_EmptyRangeFails ==
    (end_year <= start_year) =>
      /\ pc # "done"
      /\ dates_df = None
      /\ (pc \notin {"new", "loop"} => (pc = "failed" /\ error # "none"))

\* Construction of an empty range has failed without a table.
C7_Witness ==
    /\ end_year <= start_year
    /\ pc = "failed"
    /\ error = "ValueError"
    /\ n_yrs = 0
    /\ dates_df = None

\* C8: each loop iteration draws exactly one value from each of the eight generators,
\* so after i iterations each has had i values drawn, and n_yrs after the loop.
C8_OneDrawPerGeneratorPerYear ==
    pc \in {"loop", "done"} =>
      \A g \in GenNames : gens[g].total = yi - 1 /\ (pc = "done" => gens[g].total = n_yrs)

\* The DateName of the table row of a holiday.
RowNameOf(h) ==
    CASE h = h_Thanksgiving -> "Thanksgiving"
      [] h = h_Labor_Day -> "Labor Day"
      [] h = h_MLK_Day -> "MLK Day"
      [] h = h_Independence_Day -> "Independence Day"

\* C9: for every academic year Y of the range and each of Thanksgiving, Labor Day,
\* MLK Day and Independence Day, the table row of that name for Y (drawn from the
\* stateful generator windowed from August 1st of start_year) is get_holiday(name, Y).
C9_TableAgreesWithGetHoliday ==
    ( /\ last_call.op = "get_holiday"
      /\ last_call.holiday \in {h_Thanksgiving, h_Labor_Day, h_MLK_Day, h_Independence_Day}
      /\ \E i \in 1..Len(years) : years[i] = last_call.ac_year )
    => /\ last_call.value # None
       /\ NamedDates(last_call.ac_year, RowNameOf(last_call.holiday)) = {last_call.value[1]}

\* get_holiday("MLK Day", Y) for the second year of a calendar, whose row is the
\* generator's second draw.
C9_Witness ==
    /\ last_call.op = "get_holiday"
    /\ last_call.holiday = h_MLK_Day
    /\ Len(years) >= 2
    /\ last_call.ac_year = years[2]
    /\ last_call.value # None
    /\ NamedDates(years[2], "MLK Day") = {last_call.value[1]}

\* C10: for every academic year and every term of the table, "Term Start" is not later
\* than "Term End".
C10_TermStartNotAfterEnd ==
    pc = "done" =>
      \A i \in 1..Len(years) : \A sem \in {"Fall", "Spring", "Summer"} :
        \A s \in RowDates(years[i], sem, "Term Start") :
          \A e \in RowDates(years[i], sem, "Term End") : s <= e

====
